---- MODULE Spec2Model ----
(***************************************************************************)
(* A model of the Football-empire bot: the PostgreSQL store of              *)
(* database.py (teams, transactions, admins, settings) and the aiogram      *)
(* handlers of main.py.  Every statement that database.py sends through     *)
(* Database._execute runs on its own pooled connection in autocommit mode,  *)
(* so each statement is one atomic step and a handler that issues several   *)
(* statements is several steps, interleaved with the other handlers.        *)
(***************************************************************************)
EXTENDS Integers, Sequences, FiniteSets, TLC

(***************************************************************************)
(* Bounds of the model                                                      *)
(***************************************************************************)
NumUsers == 2        \* Telegram user ids are 1..NumUsers
MaxTeamSeq == 2      \* values the teams.id SERIAL sequence may hand out
MaxTxSeq == 2        \* values the transactions.id SERIAL sequence may hand out
MaxTasks == 2        \* handler coroutines in flight at the same time

(***************************************************************************)
(* Program constants                                                        *)
(***************************************************************************)
OWNER_ID == 1
MAX_STADIUM_LEVEL == 3
LIMIT == 20          \* the LIMIT of the query of Database.get_transactions

Users == 1..NumUsers
Tasks == 1..MaxTasks

STADIUM_LEVELS ==
    [l \in 0..3 |->
        CASE l = 0 -> [name |-> "Base", capacity |-> 10000, cost |-> 0]
          [] l = 1 -> [name |-> "Small", capacity |-> 25000, cost |-> 5000000]
          [] l = 2 -> [name |-> "Medium", capacity |-> 50000, cost |-> 15000000]
          [] l = 3 -> [name |-> "Large", capacity |-> 80000, cost |-> 35000000]]

(***************************************************************************)
(* Texts typed by users and carried by buttons are sequences of characters  *)
(***************************************************************************)
Digits == {"0", "1", "2", "3", "4", "5", "6", "7", "8", "9"}

DigitVal(c) ==
    CASE c = "0" -> 0 [] c = "1" -> 1 [] c = "2" -> 2 [] c = "3" -> 3
      [] c = "4" -> 4 [] c = "5" -> 5 [] c = "6" -> 6 [] c = "7" -> 7
      [] c = "8" -> 8 [] c = "9" -> 9

\* str.isdigit(): non-empty and every character a digit
isdigit(s) == Len(s) > 0 /\ \A i \in 1..Len(s) : s[i] \in Digits

RECURSIVE DigitsVal(_)
DigitsVal(s) ==
    IF Len(s) = 0 THEN 0
    ELSE 10 * DigitsVal(SubSeq(s, 1, Len(s) - 1)) + DigitVal(s[Len(s)])

\* the texts on which int() and float() do not raise ValueError, among the
\* texts of this model: an optional minus sign and decimal digits
IsNumber(s) ==
    \/ isdigit(s)
    \/ Len(s) > 1 /\ s[1] = "-" /\ isdigit(Tail(s))

\* int(text) and float(text) on such a text
NumberVal(s) == IF s[1] = "-" THEN 0 - DigitsVal(Tail(s)) ELSE DigitsVal(s)

T_abc == <<"a", "b", "c">>
T_2 == <<"2">>
T_3 == <<"3">>
T_cost1 == <<"5", "0", "0", "0", "0", "0", "0">>
T_minus400 == <<"-", "4", "0", "0">>
T_1000 == <<"1", "0", "0", "0">>

\* the suffix of a "do_upgrade_<level>" callback
LevelTexts == {<<"0">>, <<"1">>, <<"2">>, <<"4">>, <<"x">>}

(***************************************************************************)
(* State                                                                    *)
(***************************************************************************)
VARIABLES
    teams,          \* rows of table teams
    team_seq,       \* last value of the teams.id sequence
    transactions,   \* rows of table transactions
    tx_seq,         \* last value of the transactions.id sequence
    clock,          \* datetime.now()
    admins,         \* rows of table admins (user ids)
    maintenance,    \* settings['maintenance_mode']
    fsm,            \* MemoryStorage: per user, the FSM state and its data
    tasks           \* handler coroutines: position, locals and outcome

vars == <<teams, team_seq, transactions, tx_seq, clock, admins, maintenance,
          fsm, tasks>>
store == <<teams, team_seq, transactions, tx_seq, clock, admins, maintenance>>

(***************************************************************************)
(* Reads of the store                                                       *)
(***************************************************************************)
\* SELECT * FROM teams WHERE manager_id = $1 (the set has at most one row)
get_team_by_user(user_id) == {tm \in teams : tm.manager_id = user_id}

\* SELECT * FROM teams WHERE id = $1
get_team_by_id(team_id) == {tm \in teams : tm.id = team_id}

\* SELECT 1 FROM admins WHERE user_id = $1
is_admin_in_db(user_id) == user_id \in admins

\* check_is_admin without the comparison with OWNER_ID
check_is_admin_in_db_only(user_id) == is_admin_in_db(user_id)

check_is_admin(user_id) == user_id = OWNER_ID \/ is_admin_in_db(user_id)

Maintenance_is_on == maintenance = "ON"

RECURSIVE SumAmounts(_)
SumAmounts(rows) ==
    IF rows = {} THEN 0
    ELSE LET r == CHOOSE x \in rows : TRUE
         IN r.amount + SumAmounts(rows \ {r})

\* the ledger entries of a team
EntriesIn(txs, team_id) == {tx \in txs : tx.team_id = team_id}
EntriesOf(team_id) == EntriesIn(transactions, team_id)

\* the values of trans_type, "None" for None
TransTypes == {"income", "expense", "None"}

\* the WHERE clause of Database.get_transactions
Matching(txs, team_id, trans_type) ==
    {tx \in EntriesIn(txs, team_id) :
        /\ trans_type = "income" => tx.amount > 0
        /\ trans_type = "expense" => tx.amount < 0}

\* the sequences that hold every row of a set once
Orderings(rows) ==
    {f \in [1..Cardinality(rows) -> rows] :
        \A i, j \in DOMAIN f : i # j => f[i] # f[j]}

\* Database.get_transactions: ORDER BY date DESC LIMIT 20.  The order of rows
\* with equal dates is not determined by the query, so the value is the set
\* of the lists that the query may return
get_transactions(txs, team_id, trans_type) ==
    {SubSeq(f, 1, IF Len(f) < LIMIT THEN Len(f) ELSE LIMIT) :
        f \in {g \in Orderings(Matching(txs, team_id, trans_type)) :
                  \A i \in 1..(Len(g) - 1) : g[i].date >= g[i + 1].date}}

(***************************************************************************)
(* Statements of the store, as functions of the table they change           *)
(***************************************************************************)
\* a teams table whose manager_id column is not declared UNIQUE
NoUniqueConstraint(tbl, id, manager_id) == FALSE

\* the UNIQUE constraint on teams.manager_id, checked for row id
UniqueViolation(tbl, id, manager_id) ==
    \E tm \in tbl : tm.id # id /\ tm.manager_id = manager_id

\* INSERT INTO teams (...) VALUES ($1, $2, $3, $4, 0) with id taken from the
\* sequence
InsertTeam(tbl, id, name, description, manager_id, initial_budget) ==
    tbl \cup {[id |-> id, name |-> name, description |-> description,
               manager_id |-> manager_id, budget |-> initial_budget,
               stadium_level |-> 0]}

\* the UPDATE of the manager without its WHERE clause
UpdateManagerEveryRow(tbl, team_id, new_manager_id) ==
    {[tm EXCEPT !.manager_id = new_manager_id] : tm \in tbl}

\* UPDATE teams SET manager_id = $1 WHERE id = $2
UpdateManager(tbl, team_id, new_manager_id) ==
    {IF tm.id = team_id THEN [tm EXCEPT !.manager_id = new_manager_id] ELSE tm
        : tm \in tbl}

\* UPDATE teams SET budget = $1 WHERE id = $2, with a new balance that the
\* caller has computed from the balance of the club before the adjustments
UpdateBudgetFromRead(tbl, team_id, amount) ==
    {IF tm.id = team_id THEN [tm EXCEPT !.budget = NumberVal(T_1000) + amount]
     ELSE tm : tm \in tbl}

\* UPDATE teams SET budget = budget + $1 WHERE id = $2
UpdateBudget(tbl, team_id, amount) ==
    {IF tm.id = team_id THEN [tm EXCEPT !.budget = @ + amount] ELSE tm
        : tm \in tbl}

\* UPDATE teams SET stadium_level = $1 WHERE id = $2
UpdateStadiumLevel(tbl, team_id, new_level) ==
    {IF tm.id = team_id THEN [tm EXCEPT !.stadium_level = new_level] ELSE tm
        : tm \in tbl}

\* a transactions table whose team_id column is declared without ON DELETE
\* CASCADE and without the reference
NoCascade(txs, team_id) == txs

\* REFERENCES teams(id) ON DELETE CASCADE, applied when row team_id of teams
\* is deleted
CascadeDelete(txs, team_id) == txs \ EntriesIn(txs, team_id)

\* upgrade_stadium declared as (self, team_id, new_level), the signature that
\* the call in usr_do_upgrade_stadium is written for
upgrade_stadium_without_cost(tbl, args) ==
    IF Len(args) = 2
    THEN [raised |-> FALSE, teams |-> UpdateStadiumLevel(tbl, args[1], args[2])]
    ELSE [raised |-> TRUE, teams |-> tbl]

\* Database.upgrade_stadium(self, team_id, cost, new_level) called with the
\* positional arguments args: Python binds them to the three parameters, and
\* the call raises TypeError when one is missing; otherwise the UPDATE runs
upgrade_stadium(tbl, args) ==
    IF Len(args) = 3
    THEN [raised |-> FALSE, teams |-> UpdateStadiumLevel(tbl, args[1], args[3])]
    ELSE [raised |-> TRUE, teams |-> tbl]

(***************************************************************************)
(* Sessions (FSMContext over MemoryStorage)                                 *)
(***************************************************************************)
NoData == [k \in {} |-> 0]
NoSession == [state |-> "None", data |-> NoData]

\* state.update_data(k = v)
update_data(data, k, v) ==
    [x \in (DOMAIN data) \cup {k} |-> IF x = k THEN v ELSE data[x]]

\* data.get('team_id'): 0 stands for None, which matches no row
data_get_team_id(data) == IF "team_id" \in DOMAIN data THEN data.team_id ELSE 0

(***************************************************************************)
(* Handler coroutines                                                       *)
(***************************************************************************)
IdleTask == [pc |-> "idle", handler |-> "none", user |-> 0, team_id |-> 0,
             seen_level |-> 0, amount |-> 0, level |-> 0, arg |-> 0,
             reason |-> <<>>, trans_type |-> "None", rows |-> <<>>,
             text |-> <<>>, new_mode |-> "none", notified |-> "none",
             result |-> "none"]

Free(t) == tasks[t].pc \in {"idle", "done"}

\* updates are handled as asyncio tasks; a new one takes the first free slot
Slot(t) == Free(t) /\ \A s \in Tasks : s < t => ~Free(s)

\* a handler that returns or raises: its outcome stays readable in the slot
Finish(task, result) ==
    [IdleTask EXCEPT !.pc = "done", !.handler = task.handler,
                     !.user = task.user, !.team_id = task.team_id,
                     !.seen_level = task.seen_level,
                     !.level = task.level, !.trans_type = task.trans_type,
                     !.rows = task.rows, !.text = task.text,
                     !.result = result]

Start(handler, user) == [IdleTask EXCEPT !.handler = handler, !.user = user]

At(t, pc) == tasks[t].pc = pc

\* an update is dispatched to slot t as coroutine task; the outcomes of the
\* handlers that ended before it are no longer kept
Dispatch(t, task) ==
    tasks' = [s \in Tasks |-> IF s = t THEN task
                              ELSE IF Free(s) THEN IdleTask ELSE tasks[s]]

Init ==
    /\ teams = {}
    /\ team_seq = 0
    /\ transactions = {}
    /\ tx_seq = 0
    /\ clock = 0
    /\ admins = {}
    /\ maintenance = "OFF"
    /\ fsm = [u \in Users |-> NoSession]
    /\ tasks = [t \in Tasks |-> IdleTask]

(***************************************************************************)
(* Create-club flow                                                         *)
(***************************************************************************)
NameTexts == {T_abc}
IdTexts == {T_abc, T_2, T_3}
BudgetTexts == {T_abc, T_cost1, T_1000}
AmountTexts == {T_abc, T_minus400, T_1000}
ReasonTexts == {T_abc}

\* callback "adm_create_team"
adm_create_start(t, u) ==
    /\ Slot(t)
    /\ IF ~check_is_admin(u)
       THEN /\ Dispatch(t, Finish(Start("adm_create_start", u), "Unauthorized"))
            /\ UNCHANGED fsm
       ELSE /\ fsm' = [fsm EXCEPT ![u].state = "waiting_team_name"]
            /\ Dispatch(t, Finish(Start("adm_create_start", u), "ok"))
    /\ UNCHANGED store

\* message in state waiting_team_name
adm_set_name(t, u, text) ==
    /\ Slot(t)
    /\ fsm[u].state = "waiting_team_name"
    /\ fsm' = [fsm EXCEPT ![u] = [state |-> "waiting_team_desc",
                                  data |-> update_data(@.data, "name", text)]]
    /\ Dispatch(t, Finish(Start("adm_set_name", u), "ok"))
    /\ UNCHANGED store

\* adm_set_desc with set_state(AdminStates.waiting_budget): the step that
\* asks for the manager id is left out
adm_set_desc_skipping(t, u, text) ==
    /\ Slot(t)
    /\ fsm[u].state = "waiting_team_desc"
    /\ fsm' = [fsm EXCEPT ![u] = [state |-> "waiting_budget",
                                  data |-> update_data(@.data, "desc", text)]]
    /\ Dispatch(t, Finish(Start("adm_set_desc", u), "ok"))
    /\ UNCHANGED store

\* message in state waiting_team_desc
adm_set_desc(t, u, text) ==
    /\ Slot(t)
    /\ fsm[u].state = "waiting_team_desc"
    /\ fsm' = [fsm EXCEPT ![u] = [state |-> "waiting_manager_id",
                                  data |-> update_data(@.data, "desc", text)]]
    /\ Dispatch(t, Finish(Start("adm_set_desc", u), "ok"))
    /\ UNCHANGED store

\* a message handler and the text of its message
StartText(handler, user, text) == [Start(handler, user) EXCEPT !.text = text]

\* adm_set_manager with "await state.clear()" before the return of the
\* validation branch
adm_set_manager_clearing(t, u, text) ==
    /\ Slot(t)
    /\ fsm[u].state = "waiting_manager_id"
    /\ IF ~isdigit(text)
       THEN /\ Dispatch(t, Finish(StartText("adm_set_manager", u, text),
                                  "ValidationError"))
            /\ fsm' = [fsm EXCEPT ![u] = NoSession]
       ELSE /\ fsm' = [fsm EXCEPT ![u] =
                    [state |-> "waiting_budget",
                     data |-> update_data(@.data, "manager_id", NumberVal(text))]]
            /\ Dispatch(t, Finish(StartText("adm_set_manager", u, text), "ok"))
    /\ UNCHANGED store

\* message in state waiting_manager_id
adm_set_manager(t, u, text) ==
    /\ Slot(t)
    /\ fsm[u].state = "waiting_manager_id"
    /\ IF ~isdigit(text)
       THEN /\ Dispatch(t, Finish(StartText("adm_set_manager", u, text),
                                  "ValidationError"))
            /\ UNCHANGED fsm
       ELSE /\ fsm' = [fsm EXCEPT ![u] =
                    [state |-> "waiting_budget",
                     data |-> update_data(@.data, "manager_id", NumberVal(text))]]
            /\ Dispatch(t, Finish(StartText("adm_set_manager", u, text), "ok"))
    /\ UNCHANGED store

\* Database.add_team: one INSERT; the sequence value is consumed even when
\* the UNIQUE constraint rejects the row
add_team_ok(manager_id) == ~UniqueViolation(teams, team_seq + 1, manager_id)
add_team(name, description, manager_id, initial_budget) ==
    /\ team_seq' = team_seq + 1
    /\ teams' = IF add_team_ok(manager_id)
                THEN InsertTeam(teams, team_seq + 1, name, description,
                                manager_id, initial_budget)
                ELSE teams

\* message in state waiting_budget: validation, then add_team; the session is
\* cleared by the handler's last statement (ClearState)
adm_finish_team(t, u, text) ==
    /\ Slot(t)
    /\ fsm[u].state = "waiting_budget"
    /\ LET data == fsm[u].data
           me == StartText("adm_finish_team", u, text)
       IN IF ~IsNumber(text)
          THEN /\ Dispatch(t, Finish(me, "ValidationError"))
               /\ UNCHANGED <<teams, team_seq>>
          ELSE IF ~({"name", "desc", "manager_id"} \subseteq DOMAIN data)
          THEN /\ Dispatch(t, Finish(me, "KeyError"))
               /\ UNCHANGED <<teams, team_seq>>
          ELSE /\ team_seq < MaxTeamSeq
               /\ add_team(data.name, data.desc, data.manager_id, NumberVal(text))
               /\ Dispatch(t, [me EXCEPT !.pc = "clear",
                                 !.arg = data.manager_id,
                                 !.amount = NumberVal(text),
                                 !.team_id = team_seq + 1,
                                 !.result = IF add_team_ok(data.manager_id)
                                            THEN "ok" ELSE "Conflict"])
    /\ UNCHANGED <<transactions, tx_seq, clock, admins, maintenance, fsm>>

\* state.clear() on a storage that keeps one session for all users
ClearEverySession(t) ==
    /\ At(t, "clear")
    /\ fsm' = [u \in Users |-> NoSession]
    /\ tasks' = [tasks EXCEPT ![t] = Finish(@, @.result)]
    /\ UNCHANGED store

\* a handler that clears the session after a successful commit only and
\* leaves the step open after a refused one
ClearStateOnSuccess(t) ==
    /\ At(t, "clear")
    /\ fsm' = IF tasks[t].result = "ok"
              THEN [fsm EXCEPT ![tasks[t].user] = NoSession]
              ELSE fsm
    /\ tasks' = [tasks EXCEPT ![t] = Finish(@, @.result)]
    /\ UNCHANGED store

\* await state.clear(), the last statement of a committing handler
ClearState(t) ==
    /\ At(t, "clear")
    /\ fsm' = [fsm EXCEPT ![tasks[t].user] = NoSession]
    /\ tasks' = [tasks EXCEPT ![t] = Finish(@, @.result)]
    /\ UNCHANGED store

\* callback "admin_back"
admin_back_main(t, u) ==
    /\ Slot(t)
    /\ IF ~check_is_admin(u)
       THEN /\ Dispatch(t, Finish(Start("admin_back_main", u), "Unauthorized"))
            /\ UNCHANGED fsm
       ELSE /\ fsm' = [fsm EXCEPT ![u] = NoSession]
            /\ Dispatch(t, Finish(Start("admin_back_main", u), "ok"))
    /\ UNCHANGED store

(***************************************************************************)
(* Club selection and the actions on the selected club                      *)
(***************************************************************************)
\* the ids a "sel_team_for_action_<id>" callback may carry
TeamIds == 1..MaxTeamSeq

\* callback "adm_manage_money"
adm_manage_team_start(t, u) ==
    /\ Slot(t)
    /\ IF ~check_is_admin(u)
       THEN /\ Dispatch(t, Finish(Start("adm_manage_team_start", u), "Unauthorized"))
            /\ UNCHANGED fsm
       ELSE /\ fsm' = [fsm EXCEPT ![u] =
                    IF teams = {} THEN NoSession
                    ELSE [state |-> "waiting_team_select", data |-> NoData]]
            /\ Dispatch(t, Finish(Start("adm_manage_team_start", u), "ok"))
    /\ UNCHANGED store

\* callback "sel_team_for_action_<id>" in state waiting_team_select
adm_team_actions_menu(t, u, team_id) ==
    /\ Slot(t)
    /\ fsm[u].state = "waiting_team_select"
    /\ fsm' = [fsm EXCEPT ![u].data = update_data(@, "team_id", team_id)]
    /\ Dispatch(t, Finish([Start("adm_team_actions_menu", u) EXCEPT !.team_id = team_id],
                   IF get_team_by_id(team_id) = {} THEN "TypeError" ELSE "ok"))
    /\ UNCHANGED store

\* callback "sel_team_for_action_<id>" in another state (it is the data of
\* the cancel buttons that adm_start_change_manager and adm_confirm_delete
\* show): the filter of adm_team_actions_menu does not pass and no other
\* handler is registered for it, so the update is dropped
sel_team_unhandled(t, u, team_id) ==
    /\ Slot(t)
    /\ fsm[u].state # "waiting_team_select"
    /\ Dispatch(t, Finish([Start("unhandled", u) EXCEPT !.team_id = team_id],
                          "Unhandled"))
    /\ UNCHANGED <<store, fsm>>

\* callback "team_delete_execute": the lookup; the two DELETEs of
\* Database.delete_team and state.clear() follow
adm_execute_delete(t, u) ==
    /\ Slot(t)
    /\ LET team_id == data_get_team_id(fsm[u].data)
           me == [Start("adm_execute_delete", u) EXCEPT !.team_id = team_id]
       IN Dispatch(t, IF get_team_by_id(team_id) = {} THEN Finish(me, "NotFound")
              ELSE [me EXCEPT !.pc = "delete_transactions", !.result = "ok"])
    /\ UNCHANGED <<store, fsm>>

\* DELETE FROM transactions WHERE team_id = $1
delete_team_transactions(t) ==
    /\ At(t, "delete_transactions")
    /\ transactions' = transactions \ EntriesOf(tasks[t].team_id)
    /\ tasks' = [tasks EXCEPT ![t].pc = "delete_team"]
    /\ UNCHANGED <<teams, team_seq, tx_seq, clock, admins, maintenance, fsm>>

\* DELETE FROM teams WHERE id = $1, with ON DELETE CASCADE on transactions
delete_team_row(t) ==
    /\ At(t, "delete_team")
    /\ teams' = teams \ get_team_by_id(tasks[t].team_id)
    /\ transactions' = CascadeDelete(transactions, tasks[t].team_id)
    /\ tasks' = [tasks EXCEPT ![t].pc = "clear"]
    /\ UNCHANGED <<team_seq, tx_seq, clock, admins, maintenance, fsm>>

\* callback "team_action_manager"
adm_start_change_manager(t, u) ==
    /\ Slot(t)
    /\ LET team_id == data_get_team_id(fsm[u].data)
           me == [Start("adm_start_change_manager", u) EXCEPT !.team_id = team_id]
       IN IF get_team_by_id(team_id) = {}
          THEN /\ Dispatch(t, Finish(me, "TypeError"))
               /\ UNCHANGED fsm
          ELSE /\ fsm' = [fsm EXCEPT ![u].state = "waiting_new_manager_id"]
               /\ Dispatch(t, Finish(me, "ok"))
    /\ UNCHANGED store

\* message in state waiting_new_manager_id: validation and lookup
adm_finish_change_manager(t, u, text) ==
    /\ Slot(t)
    /\ fsm[u].state = "waiting_new_manager_id"
    /\ LET team_id == data_get_team_id(fsm[u].data)
           me == [StartText("adm_finish_change_manager", u, text)
                     EXCEPT !.team_id = team_id]
       IN Dispatch(t, IF ~isdigit(text) THEN Finish(me, "ValidationError")
              ELSE IF get_team_by_id(team_id) = {} THEN Finish(me, "TypeError")
              ELSE [me EXCEPT !.pc = "update_manager", !.arg = NumberVal(text)])
    /\ UNCHANGED <<store, fsm>>

\* Database.update_team_manager: one UPDATE, rejected by the UNIQUE constraint
\* when another row holds the manager id
update_team_manager(t) ==
    /\ At(t, "update_manager")
    /\ LET team_id == tasks[t].team_id
           new_manager_id == tasks[t].arg
           hit == get_team_by_id(team_id) # {}
           violation == hit /\ UniqueViolation(teams, team_id, new_manager_id)
       IN /\ teams' = IF violation THEN teams
                      ELSE UpdateManager(teams, team_id, new_manager_id)
          /\ tasks' = [tasks EXCEPT ![t] =
                 [@ EXCEPT !.pc = "clear",
                           !.result = IF violation THEN "Conflict" ELSE "ok"]]
    /\ UNCHANGED <<team_seq, transactions, tx_seq, clock, admins, maintenance,
                   fsm>>

(***************************************************************************)
(* Adjust-budget flow and Database.add_transaction                          *)
(***************************************************************************)
\* callback "team_action_budget"
adm_money_start_from_menu(t, u) ==
    /\ Slot(t)
    /\ IF ~check_is_admin(u)
       THEN /\ Dispatch(t, Finish(Start("adm_money_start_from_menu", u), "Unauthorized"))
            /\ UNCHANGED fsm
       ELSE /\ fsm' = [fsm EXCEPT ![u].state = "waiting_trans_amount"]
            /\ Dispatch(t, Finish(Start("adm_money_start_from_menu", u), "ok"))
    /\ UNCHANGED store

\* message in state waiting_trans_amount
adm_money_amount(t, u, text) ==
    /\ Slot(t)
    /\ fsm[u].state = "waiting_trans_amount"
    /\ IF ~IsNumber(text)
       THEN /\ Dispatch(t, Finish(StartText("adm_money_amount", u, text),
                                  "ValidationError"))
            /\ UNCHANGED fsm
       ELSE /\ fsm' = [fsm EXCEPT ![u] =
                    [state |-> "waiting_trans_reason",
                     data |-> update_data(@.data, "amount", NumberVal(text))]]
            /\ Dispatch(t, Finish(StartText("adm_money_amount", u, text), "ok"))
    /\ UNCHANGED store

\* message in state waiting_trans_reason: reads the session, then calls
\* add_transaction
adm_money_finish(t, u, text) ==
    /\ Slot(t)
    /\ fsm[u].state = "waiting_trans_reason"
    /\ LET data == fsm[u].data
           me == Start("adm_money_finish", u)
       IN Dispatch(t, IF ~({"team_id", "amount"} \subseteq DOMAIN data)
              THEN Finish(me, "KeyError")
              ELSE [me EXCEPT !.pc = "insert_transaction",
                              !.team_id = data.team_id,
                              !.amount = data.amount,
                              !.reason = text])
    /\ UNCHANGED <<store, fsm>>

\* add_transaction, first statement: date = datetime.now() and INSERT INTO
\* transactions; the foreign key rejects a team that does not exist
add_transaction_insert(t) ==
    /\ At(t, "insert_transaction")
    /\ tx_seq < MaxTxSeq
    /\ \E now \in {clock, clock + 1} :
        /\ clock' = now
        /\ tx_seq' = tx_seq + 1
        /\ IF get_team_by_id(tasks[t].team_id) = {}
           THEN /\ tasks' = [tasks EXCEPT ![t] = Finish(@, "ForeignKeyViolation")]
                /\ UNCHANGED transactions
           ELSE /\ transactions' = transactions \cup
                    {[id |-> tx_seq + 1, team_id |-> tasks[t].team_id,
                      amount |-> tasks[t].amount, reason |-> tasks[t].reason,
                      date |-> now]}
                /\ tasks' = [tasks EXCEPT ![t].pc = "update_budget"]
    /\ UNCHANGED <<teams, team_seq, admins, maintenance, fsm>>

\* add_transaction, second statement: UPDATE teams SET budget = budget + $1
add_transaction_update(t) ==
    /\ At(t, "update_budget")
    /\ teams' = UpdateBudget(teams, tasks[t].team_id, tasks[t].amount)
    /\ tasks' = [tasks EXCEPT ![t].pc = "after_transaction"]
    /\ UNCHANGED <<team_seq, transactions, tx_seq, clock, admins, maintenance,
                   fsm>>

\* the outcomes of bot.send_message to the manager of the club
SendOutcomes == {"sent", "failed"}

\* after_transaction without the try/except around bot.send_message: a send
\* that fails raises out of the handler, before state.clear()
after_transaction_send_uncaught(t) ==
    /\ At(t, "after_transaction")
    /\ IF tasks[t].handler = "adm_money_finish"
       THEN IF get_team_by_id(tasks[t].team_id) = {}
            THEN /\ tasks' = [tasks EXCEPT ![t] = Finish(@, "TypeError")]
                 /\ UNCHANGED fsm
            ELSE \E outcome \in SendOutcomes :
                    /\ fsm' = IF outcome = "sent"
                              THEN [fsm EXCEPT ![tasks[t].user] = NoSession]
                              ELSE fsm
                    /\ tasks' = [tasks EXCEPT ![t] =
                           [Finish(@, IF outcome = "sent" THEN "ok" ELSE "Exception")
                               EXCEPT !.notified = outcome]]
       ELSE /\ tasks' = [tasks EXCEPT ![t] =
                    Finish(@, IF get_team_by_user(tasks[t].user) = {}
                              THEN "TypeError" ELSE "ok")]
            /\ UNCHANGED fsm
    /\ UNCHANGED store

\* the statements after add_transaction: adm_money_finish reads the team by
\* id, answers, notifies the manager (the send is delivered or fails, and a
\* failure is caught and logged) and clears the session;
\* usr_do_upgrade_stadium reads the team by user and answers.
\* dict(None) raises TypeError when the row is gone.
after_transaction(t) ==
    /\ At(t, "after_transaction")
    /\ IF tasks[t].handler = "adm_money_finish"
       THEN IF get_team_by_id(tasks[t].team_id) = {}
            THEN /\ tasks' = [tasks EXCEPT ![t] = Finish(@, "TypeError")]
                 /\ UNCHANGED fsm
            ELSE \E outcome \in SendOutcomes :
                    /\ fsm' = [fsm EXCEPT ![tasks[t].user] = NoSession]
                    /\ tasks' = [tasks EXCEPT ![t] =
                           [Finish(@, "ok") EXCEPT !.notified = outcome]]
       ELSE /\ tasks' = [tasks EXCEPT ![t] =
                    Finish(@, IF get_team_by_user(tasks[t].user) = {}
                              THEN "TypeError" ELSE "ok")]
            /\ UNCHANGED fsm
    /\ UNCHANGED store

(***************************************************************************)
(* Stadium upgrade                                                          *)
(***************************************************************************)
\* the reason of the ledger entry of an upgrade
UpgradeReason == <<"u", "p">>

\* callback "do_upgrade_<level>": from the lookup of the team to the
\* affordability check
usr_do_upgrade_stadium(t, u, text) ==
    /\ Slot(t)
    /\ LET found == get_team_by_user(u)
           team == CHOOSE tm \in found : TRUE
           me == Start("usr_do_upgrade_stadium", u)
           mine == [me EXCEPT !.team_id = team.id,
                              !.seen_level = team.stadium_level]
           new_level == NumberVal(text)
       IN Dispatch(t,
              IF found = {} THEN Finish(me, "NotFound")
              ELSE IF ~IsNumber(text) THEN Finish(mine, "ValueError")
              ELSE IF new_level \notin DOMAIN STADIUM_LEVELS
                  THEN Finish([mine EXCEPT !.level = new_level], "KeyError")
              ELSE IF team.budget < STADIUM_LEVELS[new_level].cost
                  THEN Finish([mine EXCEPT !.level = new_level],
                              "InsufficientFunds")
              ELSE [mine EXCEPT !.pc = "upgrade_stadium",
                                !.level = new_level,
                                !.amount = 0 - STADIUM_LEVELS[new_level].cost,
                                !.reason = UpgradeReason])
    /\ UNCHANGED <<store, fsm>>

\* await db.upgrade_stadium(team_id, new_level)
call_upgrade_stadium(t) ==
    /\ At(t, "upgrade_stadium")
    /\ LET call == upgrade_stadium(teams, <<tasks[t].team_id, tasks[t].level>>)
       IN /\ teams' = call.teams
          /\ tasks' = [tasks EXCEPT ![t] =
                 IF call.raised THEN Finish(@, "TypeError")
                 ELSE [@ EXCEPT !.pc = "insert_transaction"]]
    /\ UNCHANGED <<team_seq, transactions, tx_seq, clock, admins, maintenance,
                   fsm>>

(***************************************************************************)
(* /start and the maintenance mode                                          *)
(***************************************************************************)
\* message "/start": the handler is registered first and has no state
\* filter, so it runs in every state and leaves the session alone
cmd_start(t, u) ==
    /\ Slot(t)
    /\ LET is_admin == check_is_admin(u)
           me == Start("cmd_start", u)
       IN Dispatch(t,
              IF ~is_admin /\ Maintenance_is_on THEN Finish(me, "Unavailable")
              ELSE IF is_admin THEN Finish(me, "ok")
              ELSE IF get_team_by_user(u) # {} THEN Finish(me, "ok")
              ELSE Finish(me, "NoAccess"))
    /\ UNCHANGED <<store, fsm>>

\* callback "super_toggle_maintenance": the check of the owner and the read
\* of the current mode
super_toggle_maintenance(t, u) ==
    /\ Slot(t)
    /\ LET me == Start("super_toggle_maintenance", u)
       IN Dispatch(t, IF u # OWNER_ID THEN Finish(me, "Unauthorized")
              ELSE [me EXCEPT !.pc = "set_setting",
                              !.new_mode = IF maintenance = "ON" THEN "OFF"
                                           ELSE "ON"])
    /\ UNCHANGED <<store, fsm>>

\* await db.set_setting('maintenance_mode', new_mode)
set_setting(t) ==
    /\ At(t, "set_setting")
    /\ maintenance' = tasks[t].new_mode
    /\ tasks' = [tasks EXCEPT ![t] = Finish(@, "ok")]
    /\ UNCHANGED <<teams, team_seq, transactions, tx_seq, clock, admins, fsm>>

(***************************************************************************)
(* The administrators, managed by the owner of the bot                      *)
(***************************************************************************)
\* "add_new_admin" open to every administrator: check_is_admin in the place
\* of the comparison with OWNER_ID
super_add_admin_start_for_admins(t, u) ==
    /\ Slot(t)
    /\ IF ~check_is_admin(u)
       THEN /\ Dispatch(t, Finish(Start("super_add_admin_start", u), "Unauthorized"))
            /\ UNCHANGED fsm
       ELSE /\ fsm' = [fsm EXCEPT ![u].state = "waiting_new_admin_id"]
            /\ Dispatch(t, Finish(Start("super_add_admin_start", u), "ok"))
    /\ UNCHANGED store

\* callback "add_new_admin"
super_add_admin_start(t, u) ==
    /\ Slot(t)
    /\ IF u # OWNER_ID
       THEN /\ Dispatch(t, Finish(Start("super_add_admin_start", u), "Unauthorized"))
            /\ UNCHANGED fsm
       ELSE /\ fsm' = [fsm EXCEPT ![u].state = "waiting_new_admin_id"]
            /\ Dispatch(t, Finish(Start("super_add_admin_start", u), "ok"))
    /\ UNCHANGED store

\* an admins table without its primary key: the INSERT is never rejected
add_admin_without_key(user_id) == TRUE

\* Database.add_admin: one INSERT, rejected by the primary key of admins when
\* the user id is there
add_admin_ok(user_id) == user_id \notin admins
add_admin(user_id) == admins' = admins \cup {user_id}

\* message in state waiting_new_admin_id: validation, then add_admin; the
\* session is cleared by the handler's last statement (ClearState)
super_add_admin_finish(t, u, text) ==
    /\ Slot(t)
    /\ fsm[u].state = "waiting_new_admin_id"
    /\ LET me == StartText("super_add_admin_finish", u, text)
       IN IF ~isdigit(text)
          THEN /\ Dispatch(t, Finish(me, "ValidationError"))
               /\ UNCHANGED admins
          ELSE /\ add_admin(NumberVal(text))
               /\ Dispatch(t, [me EXCEPT !.pc = "clear",
                                 !.arg = NumberVal(text),
                                 !.result = IF add_admin_ok(NumberVal(text))
                                            THEN "ok" ELSE "AlreadyExists"])
    /\ UNCHANGED <<teams, team_seq, transactions, tx_seq, clock, maintenance, fsm>>

\* callback "del_admin_<id>": Database.remove_admin, one DELETE, and the
\* list of the administrators shown again
super_delete_admin(t, u, admin_to_delete) ==
    /\ Slot(t)
    /\ IF u # OWNER_ID
       THEN /\ Dispatch(t, Finish(Start("super_delete_admin", u), "Unauthorized"))
            /\ UNCHANGED admins
       ELSE /\ admins' = admins \ {admin_to_delete}
            /\ Dispatch(t, [Finish(Start("super_delete_admin", u), "ok")
                               EXCEPT !.arg = admin_to_delete])
    /\ UNCHANGED <<teams, team_seq, transactions, tx_seq, clock, maintenance, fsm>>

(***************************************************************************)
(* Reports of the manager of a club                                         *)
(***************************************************************************)
\* callback "usr_info"
usr_show_info(t, u) ==
    /\ Slot(t)
    /\ LET found == get_team_by_user(u)
           team == CHOOSE tm \in found : TRUE
           me == Start("usr_show_info", u)
       IN Dispatch(t,
              IF found = {} THEN Finish(me, "NotFound")
              ELSE IF team.stadium_level \notin DOMAIN STADIUM_LEVELS
                  THEN Finish([me EXCEPT !.team_id = team.id], "KeyError")
              ELSE Finish([me EXCEPT !.team_id = team.id,
                                     !.seen_level = team.stadium_level], "ok"))
    /\ UNCHANGED <<store, fsm>>

\* callback "usr_upgrade_stadium": the offer of the next level, or the
\* message that the stadium has the highest level
usr_show_upgrade_stadium(t, u) ==
    /\ Slot(t)
    /\ LET found == get_team_by_user(u)
           team == CHOOSE tm \in found : TRUE
           me == Start("usr_show_upgrade_stadium", u)
           mine == [me EXCEPT !.team_id = team.id,
                              !.seen_level = team.stadium_level]
           next_level == team.stadium_level + 1
       IN Dispatch(t,
              IF found = {} THEN Finish(me, "NotFound")
              ELSE IF team.stadium_level \notin DOMAIN STADIUM_LEVELS
                  THEN Finish(mine, "KeyError")
              ELSE IF team.stadium_level >= MAX_STADIUM_LEVEL
                  THEN Finish(mine, "MaxLevel")
              ELSE IF team.budget >= STADIUM_LEVELS[next_level].cost
                  THEN Finish([mine EXCEPT !.level = next_level], "ok")
              ELSE Finish([mine EXCEPT !.level = next_level],
                          "InsufficientFunds"))
    /\ UNCHANGED <<store, fsm>>

\* the callbacks of usr_show_finance
FinanceModes == {"usr_expenses", "usr_incomes", "usr_history"}

\* callback "usr_expenses", "usr_incomes" or "usr_history": the lookup of the
\* team of the user and the choice of trans_type
usr_show_finance(t, u, mode) ==
    /\ Slot(t)
    /\ LET found == get_team_by_user(u)
           team == CHOOSE tm \in found : TRUE
           me == Start("usr_show_finance", u)
           trans_type == IF mode = "usr_expenses" THEN "expense"
                         ELSE IF mode = "usr_incomes" THEN "income"
                         ELSE "None"
       IN Dispatch(t, IF found = {} THEN Finish(me, "NotFound")
              ELSE [me EXCEPT !.pc = "get_transactions",
                              !.team_id = team.id,
                              !.trans_type = trans_type])
    /\ UNCHANGED <<store, fsm>>

\* transactions = await db.get_transactions(team_dict['id'], trans_type), and
\* the report made of its rows
show_transactions(t) ==
    /\ At(t, "get_transactions")
    /\ \E rows \in get_transactions(transactions, tasks[t].team_id,
                                     tasks[t].trans_type) :
          tasks' = [tasks EXCEPT ![t] = Finish([@ EXCEPT !.rows = rows], "ok")]
    /\ UNCHANGED <<store, fsm>>

(***************************************************************************)
(* Failures                                                                 *)
(***************************************************************************)
\* a statement of a running handler raises (the connection is lost, the
\* transport fails): the handler ends there and on_error logs it
ExecuteRaises(t) ==
    /\ ~Free(t)
    /\ tasks' = [tasks EXCEPT ![t] = Finish(@, "Exception")]
    /\ UNCHANGED <<store, fsm>>

\* the process stops and is started again: the coroutines and the
\* MemoryStorage sessions are lost, the database is kept
Restart ==
    /\ tasks' = [t \in Tasks |-> IdleTask]
    /\ fsm' = [u \in Users |-> NoSession]
    /\ UNCHANGED store

\* the Create-club flow
NextCreate ==
    \/ \E t \in Tasks, u \in Users : adm_create_start(t, u)
    \/ \E t \in Tasks, u \in Users, text \in NameTexts : adm_set_name(t, u, text)
    \/ \E t \in Tasks, u \in Users, text \in NameTexts : adm_set_desc(t, u, text)
    \/ \E t \in Tasks, u \in Users, text \in IdTexts : adm_set_manager(t, u, text)
    \/ \E t \in Tasks, u \in Users, text \in BudgetTexts : adm_finish_team(t, u, text)

\* the selection of a club, the Reassign-manager flow and the deletion
NextManage ==
    \/ \E t \in Tasks, u \in Users : adm_manage_team_start(t, u)
    \/ \E t \in Tasks, u \in Users, id \in TeamIds : adm_team_actions_menu(t, u, id)
    \/ \E t \in Tasks, u \in Users : adm_start_change_manager(t, u)
    \/ \E t \in Tasks, u \in Users, text \in IdTexts :
            adm_finish_change_manager(t, u, text)
    \/ \E t \in Tasks : update_team_manager(t)

NextDelete ==
    \/ \E t \in Tasks, u \in Users : adm_execute_delete(t, u)
    \/ \E t \in Tasks : delete_team_transactions(t)
    \/ \E t \in Tasks : delete_team_row(t)

\* the Adjust-budget flow
NextMoney ==
    \/ \E t \in Tasks, u \in Users : adm_money_start_from_menu(t, u)
    \/ \E t \in Tasks, u \in Users, text \in AmountTexts : adm_money_amount(t, u, text)
    \/ \E t \in Tasks, u \in Users, text \in ReasonTexts : adm_money_finish(t, u, text)
    \/ \E t \in Tasks : add_transaction_insert(t)
    \/ \E t \in Tasks : add_transaction_update(t)
    \/ \E t \in Tasks : after_transaction(t)

\* the stadium upgrade
NextUpgrade ==
    \/ \E t \in Tasks, u \in Users, text \in LevelTexts :
            usr_do_upgrade_stadium(t, u, text)
    \/ \E t \in Tasks : call_upgrade_stadium(t)

\* the Add-administrator flow and the removal of an administrator
NextAdmins ==
    \/ \E t \in Tasks, u \in Users : super_add_admin_start(t, u)
    \/ \E t \in Tasks, u \in Users, text \in IdTexts : super_add_admin_finish(t, u, text)
    \/ \E t \in Tasks, u \in Users, id \in Users : super_delete_admin(t, u, id)

\* /start and the maintenance mode
NextStart ==
    \/ \E t \in Tasks, u \in Users : cmd_start(t, u)
    \/ \E t \in Tasks, u \in Users : super_toggle_maintenance(t, u)
    \/ \E t \in Tasks : set_setting(t)

\* the club of the manager
NextInfo ==
    \/ \E t \in Tasks, u \in Users : usr_show_info(t, u)
    \/ \E t \in Tasks, u \in Users : usr_show_upgrade_stadium(t, u)

\* the reports
NextReports ==
    \/ \E t \in Tasks, u \in Users, mode \in FinanceModes :
            usr_show_finance(t, u, mode)
    \/ \E t \in Tasks : show_transactions(t)

NextCommon ==
    \/ \E t \in Tasks : ClearState(t)
    \/ \E t \in Tasks, u \in Users : admin_back_main(t, u)
    \/ \E t \in Tasks, u \in Users, id \in TeamIds : sel_team_unhandled(t, u, id)
    \/ \E t \in Tasks : ExecuteRaises(t)
    \/ Restart

Next ==
    \/ NextCreate
    \/ NextManage
    \/ NextDelete
    \/ NextMoney
    \/ NextUpgrade
    \/ NextAdmins
    \/ NextStart
    \/ NextInfo
    \/ NextReports
    \/ NextCommon

\* the whole program
Spec == Init /\ [][Next]_vars

(***************************************************************************)
(* The Create-club flow, from the empty database                            *)
(***************************************************************************)
NextCreateClub ==
    \/ NextCreate
    \/ \E t \in Tasks : ClearState(t)
    \/ \E t \in Tasks, u \in Users : admin_back_main(t, u)
    \/ \E t \in Tasks : ExecuteRaises(t)
    \/ Restart

SpecCreate == Init /\ [][NextCreateClub]_vars

(***************************************************************************)
(* The Reassign-manager flow and the deletion, on the clubs that the         *)
(* Create-club flow made for managers 2 and 3                               *)
(***************************************************************************)
InitManage ==
    /\ teams = InsertTeam(InsertTeam({}, 1, T_abc, T_abc, 2, NumberVal(T_1000)),
                          2, T_abc, T_abc, 3, NumberVal(T_1000))
    /\ team_seq = 2
    /\ transactions = {}
    /\ tx_seq = 0
    /\ clock = 0
    /\ admins = {}
    /\ maintenance = "OFF"
    /\ fsm = [u \in Users |-> NoSession]
    /\ tasks = [t \in Tasks |-> IdleTask]

NextManageClub ==
    \/ NextManage
    \/ NextDelete
    \/ \E t \in Tasks : ClearState(t)
    \/ \E t \in Tasks : ExecuteRaises(t)
    \/ Restart

SpecManage == InitManage /\ [][NextManageClub]_vars

(***************************************************************************)
(* The finances of one club: the database holds the club that the           *)
(* Create-club flow made for manager 2 with a budget equal to the cost of   *)
(* level 1, and the owner of the bot has selected it and entered an amount. *)
(* The owner commits the adjustment or deletes the club while the manager   *)
(* asks for upgrades.                                                       *)
(***************************************************************************)
InitFinance ==
    /\ teams = InsertTeam({}, 1, T_abc, T_abc, 2, NumberVal(T_cost1))
    /\ team_seq = 1
    /\ transactions = {}
    /\ tx_seq = 0
    /\ clock = 0
    /\ admins = {}
    /\ maintenance = "OFF"
    /\ \E text \in AmountTexts :
        /\ IsNumber(text)
        /\ fsm = [u \in Users |->
                    IF u = OWNER_ID
                    THEN [state |-> "waiting_trans_reason",
                          data |-> update_data(update_data(NoData, "team_id", 1),
                                               "amount", NumberVal(text))]
                    ELSE NoSession]
    /\ tasks = [t \in Tasks |-> IdleTask]

NextFinance ==
    \/ \E t \in Tasks, u \in Users, text \in ReasonTexts : adm_money_finish(t, u, text)
    \/ \E t \in Tasks : add_transaction_insert(t)
    \/ \E t \in Tasks : add_transaction_update(t)
    \/ \E t \in Tasks : after_transaction(t)
    \/ NextUpgrade
    \/ NextDelete
    \/ \E t \in Tasks : ClearState(t)
    \/ \E t \in Tasks : ExecuteRaises(t)
    \/ Restart

SpecFinance == InitFinance /\ [][NextFinance]_vars

(***************************************************************************)
(* Two administrators assign managers at the same time.  The database holds *)
(* the club that the Create-club flow made for manager 2, the owner of the  *)
(* bot has made user 2 an administrator, and each of the two has either     *)
(* entered the name and the description of a new club or opened the         *)
(* selection of a club.                                                     *)
(***************************************************************************)
OwnersSessions ==
    {[state |-> "waiting_manager_id",
      data |-> update_data(update_data(NoData, "name", T_abc), "desc", T_abc)],
     [state |-> "waiting_team_select", data |-> NoData]}

InitOwners ==
    /\ teams = InsertTeam({}, 1, T_abc, T_abc, 2, NumberVal(T_1000))
    /\ team_seq = 1
    /\ transactions = {}
    /\ tx_seq = 0
    /\ clock = 0
    /\ admins = {2}
    /\ maintenance = "OFF"
    /\ fsm \in [Users -> OwnersSessions \cup {NoSession}]
    /\ \A u \in Users : fsm[u] = NoSession <=> ~check_is_admin(u)
    /\ tasks = [t \in Tasks |-> IdleTask]

NextOwners ==
    \/ \E t \in Tasks, u \in Users, text \in IdTexts : adm_set_manager(t, u, text)
    \/ \E t \in Tasks, u \in Users, text \in BudgetTexts : adm_finish_team(t, u, text)
    \/ \E t \in Tasks, u \in Users, id \in TeamIds : adm_team_actions_menu(t, u, id)
    \/ \E t \in Tasks, u \in Users : adm_start_change_manager(t, u)
    \/ \E t \in Tasks, u \in Users, text \in IdTexts :
            adm_finish_change_manager(t, u, text)
    \/ \E t \in Tasks : update_team_manager(t)
    \/ \E t \in Tasks : ClearState(t)
    \/ \E t \in Tasks : ExecuteRaises(t)

SpecOwners == InitOwners /\ [][NextOwners]_vars

(***************************************************************************)
(* The ledgers of two clubs.  The database holds the clubs that the         *)
(* Create-club flow made for managers 2 and 3, and the Adjust-budget flow   *)
(* has added 1000 to one of them.  The owner of the bot has selected a club *)
(* and entered an amount; he commits the adjustment and deletes the         *)
(* selected club, while manager 2 asks for the reports.                     *)
(***************************************************************************)
InitLedger ==
    \E had \in {1, 2}, sel \in {1, 2}, text \in AmountTexts :
        /\ IsNumber(text)
        /\ teams = UpdateBudget(
                      InsertTeam(InsertTeam({}, 1, T_abc, T_abc, 2, NumberVal(T_1000)),
                                 2, T_abc, T_abc, 3, NumberVal(T_1000)),
                      had, NumberVal(T_1000))
        /\ team_seq = 2
        /\ transactions = {[id |-> 1, team_id |-> had, amount |-> NumberVal(T_1000),
                            reason |-> T_abc, date |-> 0]}
        /\ tx_seq = 1
        /\ clock = 0
        /\ admins = {}
        /\ maintenance = "OFF"
        /\ fsm = [u \in Users |->
                    IF u = OWNER_ID
                    THEN [state |-> "waiting_trans_reason",
                          data |-> update_data(update_data(NoData, "team_id", sel),
                                               "amount", NumberVal(text))]
                    ELSE NoSession]
        /\ tasks = [t \in Tasks |-> IdleTask]

NextLedger ==
    \/ \E t \in Tasks, u \in Users, text \in ReasonTexts : adm_money_finish(t, u, text)
    \/ \E t \in Tasks : add_transaction_insert(t)
    \/ \E t \in Tasks : add_transaction_update(t)
    \/ \E t \in Tasks : after_transaction(t)
    \/ NextDelete
    \/ NextReports
    \/ \E t \in Tasks : ClearState(t)
    \/ \E t \in Tasks : ExecuteRaises(t)

SpecLedger == InitLedger /\ [][NextLedger]_vars

(***************************************************************************)
(* The steps of the workflows that validate their input, and the commits.   *)
(* The database holds the club made for manager 2, and the owner of the bot *)
(* is in one of the flows: he has entered the name and the description of a *)
(* new club, or also its manager; he has tapped "team_action_budget" or     *)
(* "team_action_manager" after the selection of club 1, or                  *)
(* "team_action_budget" on an old message with no club selected; or he has  *)
(* tapped "add_new_admin".                                                  *)
(***************************************************************************)
NameAndDesc == update_data(update_data(NoData, "name", T_abc), "desc", T_abc)
Selected(team_id) == update_data(NoData, "team_id", team_id)

WorkflowSessions ==
    {[state |-> "waiting_manager_id", data |-> NameAndDesc],
     [state |-> "waiting_trans_amount", data |-> Selected(1)],
     [state |-> "waiting_trans_amount", data |-> NoData],
     [state |-> "waiting_new_manager_id", data |-> Selected(1)],
     [state |-> "waiting_new_admin_id", data |-> NoData]}
    \cup {[state |-> "waiting_budget",
           data |-> update_data(NameAndDesc, "manager_id", NumberVal(text))]
            : text \in {x \in IdTexts : isdigit(x)}}

InitWorkflow ==
    /\ teams = InsertTeam({}, 1, T_abc, T_abc, 2, NumberVal(T_1000))
    /\ team_seq = 1
    /\ transactions = {}
    /\ tx_seq = 0
    /\ clock = 0
    /\ admins = {}
    /\ maintenance = "OFF"
    /\ \E session \in WorkflowSessions :
          fsm = [u \in Users |-> IF u = OWNER_ID THEN session ELSE NoSession]
    /\ tasks = [t \in Tasks |-> IdleTask]

NextWorkflow ==
    \/ \E t \in Tasks, u \in Users, text \in IdTexts : adm_set_manager(t, u, text)
    \/ \E t \in Tasks, u \in Users, text \in BudgetTexts : adm_finish_team(t, u, text)
    \/ \E t \in Tasks, u \in Users, text \in IdTexts :
            adm_finish_change_manager(t, u, text)
    \/ \E t \in Tasks : update_team_manager(t)
    \/ \E t \in Tasks, u \in Users, text \in AmountTexts : adm_money_amount(t, u, text)
    \/ \E t \in Tasks, u \in Users, text \in ReasonTexts : adm_money_finish(t, u, text)
    \/ \E t \in Tasks : add_transaction_insert(t)
    \/ \E t \in Tasks : add_transaction_update(t)
    \/ \E t \in Tasks : after_transaction(t)
    \/ \E t \in Tasks, u \in Users, text \in IdTexts : super_add_admin_finish(t, u, text)
    \/ \E t \in Tasks : ClearState(t)
    \/ \E t \in Tasks, u \in Users : admin_back_main(t, u)
    \/ \E t \in Tasks, u \in Users, id \in TeamIds : sel_team_unhandled(t, u, id)
    \/ \E t \in Tasks : ExecuteRaises(t)

SpecWorkflow == InitWorkflow /\ [][NextWorkflow]_vars

(***************************************************************************)
(* Roles.  The database holds the club made for manager 2; the owner of the *)
(* bot has made user 2 an administrator, and user 2 is in a flow: he has    *)
(* entered all but the budget of a new club, or he has selected club 1, or  *)
(* also tapped "team_action_manager", or also entered the amount of an      *)
(* adjustment.  The owner removes administrators while user 2 goes on.      *)
(***************************************************************************)
RolesSessions ==
    {[state |-> "waiting_budget",
      data |-> update_data(NameAndDesc, "manager_id", NumberVal(T_3))],
     [state |-> "waiting_team_select", data |-> Selected(1)],
     [state |-> "waiting_new_manager_id", data |-> Selected(1)],
     [state |-> "waiting_trans_reason",
      data |-> update_data(Selected(1), "amount", NumberVal(T_minus400))]}

InitRoles ==
    /\ teams = InsertTeam({}, 1, T_abc, T_abc, 2, NumberVal(T_cost1))
    /\ team_seq = 1
    /\ transactions = {}
    /\ tx_seq = 0
    /\ clock = 0
    /\ admins = {2}
    /\ maintenance = "OFF"
    /\ \E session \in RolesSessions :
          fsm = [u \in Users |-> IF u = 2 THEN session ELSE NoSession]
    /\ tasks = [t \in Tasks |-> IdleTask]

NextRoles ==
    \/ \E t \in Tasks, u \in Users, id \in Users : super_delete_admin(t, u, id)
    \/ \E t \in Tasks, u \in Users, text \in BudgetTexts : adm_finish_team(t, u, text)
    \/ \E t \in Tasks, u \in Users, text \in IdTexts :
            adm_finish_change_manager(t, u, text)
    \/ \E t \in Tasks : update_team_manager(t)
    \/ \E t \in Tasks, u \in Users, text \in ReasonTexts : adm_money_finish(t, u, text)
    \/ \E t \in Tasks : add_transaction_insert(t)
    \/ \E t \in Tasks : add_transaction_update(t)
    \/ \E t \in Tasks : after_transaction(t)
    \/ NextDelete
    \/ \E t \in Tasks : ClearState(t)
    \/ \E t \in Tasks : ExecuteRaises(t)

SpecRoles == InitRoles /\ [][NextRoles]_vars

(***************************************************************************)
(* The maintenance mode.  The database holds the club made for manager 2    *)
(* with a budget equal to the cost of level 1, and user 2 is an             *)
(* administrator too.  The owner of the bot toggles the mode and removes    *)
(* the administrator; both users send /start and tap the buttons of the     *)
(* manager's menu.                                                          *)
(***************************************************************************)
InitMaintenance ==
    /\ teams = InsertTeam({}, 1, T_abc, T_abc, 2, NumberVal(T_cost1))
    /\ team_seq = 1
    /\ transactions = {}
    /\ tx_seq = 0
    /\ clock = 0
    /\ admins = {2}
    /\ maintenance = "OFF"
    /\ fsm = [u \in Users |-> NoSession]
    /\ tasks = [t \in Tasks |-> IdleTask]

NextMaintenance ==
    \/ \E t \in Tasks, u \in Users, id \in Users : super_delete_admin(t, u, id)
    \/ NextStart
    \/ NextInfo
    \/ NextReports
    \/ NextUpgrade
    \/ \E t \in Tasks : ExecuteRaises(t)

SpecMaintenance == InitMaintenance /\ [][NextMaintenance]_vars

(***************************************************************************)
(* The owner of the bot and the administrators.  The database holds the     *)
(* club made for manager 2; the owner has made user 2 and his own id        *)
(* administrators.  The owner adds and removes administrators and toggles   *)
(* the maintenance mode; every user sends /start, taps the buttons of the   *)
(* owner's menu and of the administrators' menu, and sends texts.           *)
(***************************************************************************)
InitPrivilege ==
    /\ teams = InsertTeam({}, 1, T_abc, T_abc, 2, NumberVal(T_1000))
    /\ team_seq = 1
    /\ transactions = {}
    /\ tx_seq = 0
    /\ clock = 0
    /\ admins = {OWNER_ID, 2}
    /\ maintenance = "OFF"
    /\ fsm = [u \in Users |-> NoSession]
    /\ tasks = [t \in Tasks |-> IdleTask]

NextPrivilege ==
    \/ NextAdmins
    \/ NextStart
    \/ \E t \in Tasks, u \in Users : adm_create_start(t, u)
    \/ \E t \in Tasks, u \in Users : adm_money_start_from_menu(t, u)
    \/ \E t \in Tasks, u \in Users : admin_back_main(t, u)
    \/ \E t \in Tasks : ClearState(t)
    \/ \E t \in Tasks : ExecuteRaises(t)

SpecPrivilege == InitPrivilege /\ [][NextPrivilege]_vars

(***************************************************************************)
(* The selection of a club and the flows that need it.  The database holds  *)
(* the club made for manager 2 and no user has a session.  The owner of the *)
(* bot opens the selection, selects a club, starts the Reassign-manager and *)
(* the Adjust-budget flows and goes back, and taps the buttons of the       *)
(* messages that earlier steps have left in the chat, in every state.       *)
(***************************************************************************)
InitSelect ==
    /\ teams = InsertTeam({}, 1, T_abc, T_abc, 2, NumberVal(T_1000))
    /\ team_seq = 1
    /\ transactions = {}
    /\ tx_seq = 0
    /\ clock = 0
    /\ admins = {}
    /\ maintenance = "OFF"
    /\ fsm = [u \in Users |-> NoSession]
    /\ tasks = [t \in Tasks |-> IdleTask]

NextSelect ==
    \/ NextManage
    \/ \E t \in Tasks, u \in Users : adm_money_start_from_menu(t, u)
    \/ \E t \in Tasks, u \in Users, text \in AmountTexts : adm_money_amount(t, u, text)
    \/ \E t \in Tasks, u \in Users : admin_back_main(t, u)
    \/ \E t \in Tasks : ClearState(t)
    \/ \E t \in Tasks : ExecuteRaises(t)

SpecSelect == InitSelect /\ [][NextSelect]_vars

(***************************************************************************)
(* The steps of the Create-club flow, from the empty database and from the  *)
(* menu.  The owner of the bot goes through the flow and taps, in every     *)
(* state, the buttons that the menu and earlier messages show.              *)
(***************************************************************************)
NextSteps ==
    \/ NextCreate
    \/ \E t \in Tasks, u \in Users : adm_manage_team_start(t, u)
    \/ \E t \in Tasks, u \in Users : adm_money_start_from_menu(t, u)
    \/ \E t \in Tasks, u \in Users : admin_back_main(t, u)
    \/ \E t \in Tasks : ClearState(t)
    \/ \E t \in Tasks : ExecuteRaises(t)

SpecSteps == Init /\ [][NextSteps]_vars

(***************************************************************************)
(* Adjustments of one club at the same time.  The database holds the club   *)
(* made for manager 2 with the balance 1000 and an empty ledger; the owner  *)
(* of the bot has made user 2 an administrator, and each of the two has     *)
(* selected the club and entered an amount.  Each sends the reason, once or *)
(* again before the session is cleared, and the calls of add_transaction    *)
(* run to their end in every order of their statements.                     *)
(***************************************************************************)
AppendSessions ==
    {[state |-> "waiting_trans_reason",
      data |-> update_data(Selected(1), "amount", NumberVal(text))]
        : text \in {x \in AmountTexts : IsNumber(x)}}

InitAppend ==
    /\ teams = InsertTeam({}, 1, T_abc, T_abc, 2, NumberVal(T_1000))
    /\ team_seq = 1
    /\ transactions = {}
    /\ tx_seq = 0
    /\ clock = 0
    /\ admins = {2}
    /\ maintenance = "OFF"
    /\ fsm \in [Users -> AppendSessions \cup {NoSession}]
    /\ \A u \in Users : fsm[u] = NoSession <=> ~check_is_admin(u)
    /\ tasks = [t \in Tasks |-> IdleTask]

NextAppend ==
    \/ \E t \in Tasks, u \in Users, text \in ReasonTexts : adm_money_finish(t, u, text)
    \/ \E t \in Tasks : add_transaction_insert(t)
    \/ \E t \in Tasks : add_transaction_update(t)
    \/ \E t \in Tasks : after_transaction(t)

SpecAppend == InitAppend /\ [][NextAppend]_vars

(***************************************************************************)
(* Properties                                                               *)
(***************************************************************************)
UpgradeTask(t) == tasks[t].handler = "usr_do_upgrade_stadium"
UpgradeDone(t) == UpgradeTask(t) /\ tasks[t].pc = "done"
UpgradeRunning(t) == UpgradeTask(t) /\ ~Free(t)
UpgradeEntriesIn(txs, team_id) ==
    {tx \in EntriesIn(txs, team_id) : tx.reason = UpgradeReason}

\* C1: the stored balance of every club equals the sum of the amounts of its
\* ledger entries, in every state, also right after createClub with a
\* non-zero initial balance.
C1_BalanceIsLedgerSum ==
    \A tm \in teams : tm.budget = SumAmounts(EntriesOf(tm.id))

\* C2: appendTransaction is all-or-nothing: no step that removes no ledger
\* entry stores an entry of a club without adding its amount to the club's
\* balance, or changes the balance without storing the entry.
C2_AppendIsAllOrNothing ==
    [][\A tm \in teams, tn \in teams' :
          (tm.id = tn.id /\ transactions \subseteq transactions') =>
              tn.budget - tm.budget =
                  SumAmounts(EntriesIn(transactions', tm.id))
                    - SumAmounts(EntriesIn(transactions, tm.id))]_vars

\* C3: two concurrent requests for the next level of a club whose balance is
\* exactly the cost of that level, with no other change of its balance, end
\* with one success and one InsufficientFunds, and the balance is the initial
\* balance minus the cost.
C3_ConcurrentUpgrades ==
    \A t1, t2 \in Tasks :
        ( /\ t1 # t2
          /\ UpgradeDone(t1) /\ UpgradeDone(t2)
          /\ tasks[t1].team_id = tasks[t2].team_id
          /\ tasks[t1].seen_level = 0 /\ tasks[t2].seen_level = 0
          /\ tasks[t1].level = 1 /\ tasks[t2].level = 1
          /\ tasks[t1].result # "Exception" /\ tasks[t2].result # "Exception"
          /\ \A tx \in transactions : tx.reason = UpgradeReason )
        => /\ {tasks[t1].result, tasks[t2].result} = {"ok", "InsufficientFunds"}
           /\ \A tm \in get_team_by_id(tasks[t1].team_id) :
                 tm.budget = NumberVal(T_cost1) - STADIUM_LEVELS[1].cost

C5_UpgradeCompletes ==
    \A t \in Tasks :
        ( /\ UpgradeDone(t)
          /\ tasks[t].result \notin {"NotFound", "ValueError", "KeyError",
                                     "InsufficientFunds", "Exception"} )
        => /\ tasks[t].result = "ok"
           /\ \A tm \in get_team_by_id(tasks[t].team_id) :
                 /\ tm.stadium_level = tasks[t].level
                 /\ \E tx \in UpgradeEntriesIn(transactions, tm.id) :
                       tx.amount = 0 - STADIUM_LEVELS[tasks[t].level].cost

\* C6: an upgrade request for a club at MAX_STADIUM_LEVEL, or for a target
\* above it, fails with TerminalTier and leaves the tier and the ledger of the
\* club as they were.
C6_TerminalTier ==
    \A t \in Tasks :
        ( /\ UpgradeDone(t)
          /\ tasks[t].result \notin {"NotFound", "ValueError", "Exception"}
          /\ \/ tasks[t].level > MAX_STADIUM_LEVEL
             \/ tasks[t].seen_level >= MAX_STADIUM_LEVEL )
        => /\ tasks[t].result = "TerminalTier"
           /\ \A tm \in get_team_by_id(tasks[t].team_id) :
                 /\ tm.stadium_level = tasks[t].seen_level
                 /\ UpgradeEntriesIn(transactions, tm.id) = {}

C9_CreateConflict ==
    [][\A t \in Tasks :
          ( /\ tasks'[t] # tasks[t]
            /\ tasks'[t].handler = "adm_finish_team"
            /\ tasks'[t].pc = "clear"
            /\ \E tm \in teams : tm.manager_id = tasks'[t].arg )
          => /\ tasks'[t].result = "Conflict"
             /\ UNCHANGED <<teams, transactions>>]_vars

\* C9, witness: a Create-club commit has reported Conflict.
C9_Witness ==
    \E t \in Tasks :
        /\ tasks[t].handler = "adm_finish_team"
        /\ tasks[t].result = "Conflict"
        /\ teams # {}

\* C10: the UPDATE of Reassign-manager for a manager id that owns another
\* club reports Conflict and changes no club; otherwise it reports success,
\* the selected club has the new manager id and nothing else of it is
\* changed, and every other club is as it was.
C10_ReassignOwner ==
    [][\A t \in Tasks :
          ( /\ tasks[t].handler = "adm_finish_change_manager"
            /\ tasks[t].pc = "update_manager"
            /\ tasks'[t].pc = "clear"
            /\ get_team_by_id(tasks[t].team_id) # {} )
          => IF \E tm \in teams : /\ tm.id # tasks[t].team_id
                                  /\ tm.manager_id = tasks[t].arg
             THEN /\ tasks'[t].result = "Conflict"
                  /\ UNCHANGED teams
             ELSE /\ tasks'[t].result = "ok"
                  /\ \A tm \in teams :
                        IF tm.id = tasks[t].team_id
                        THEN [tm EXCEPT !.manager_id = tasks[t].arg] \in teams'
                        ELSE tm \in teams'
                  /\ Cardinality(teams') = Cardinality(teams)]_vars

\* C10, witness: one reassignment was refused with Conflict while another
\* club holds the manager id.
C10_Witness ==
    \E t \in Tasks :
        /\ tasks[t].handler = "adm_finish_change_manager"
        /\ tasks[t].result = "Conflict"
        /\ Cardinality(teams) >= 2

\* C11: under every interleaving of the commits of the Create-club flow and
\* of the Reassign-manager flow by different administrators, no manager id is
\* the manager of two clubs, and no step gives a club a manager id that
\* another club holds.
C11_OwnerOfOneClub ==
    /\ [](\A tm \in teams, tn \in teams :
             tm.manager_id = tn.manager_id => tm.id = tn.id)
    /\ [][\A tn \in teams' :
             (\A tm \in teams : tm.id = tn.id => tm.manager_id # tn.manager_id)
             => ~\E tm \in teams : tm.id # tn.id /\ tm.manager_id = tn.manager_id]_vars

\* C11, witness: the commits of two administrators for manager id 3, which
\* no club had at the start, and for two different clubs ran at the same
\* time, one a Create-club commit and one a Reassign-manager commit, and one
\* of them was refused.
C11_Witness ==
    \E t1, t2 \in Tasks :
        /\ tasks[t1].handler = "adm_finish_team"
        /\ tasks[t2].handler = "adm_finish_change_manager"
        /\ tasks[t1].pc = "clear" /\ tasks[t2].pc = "clear"
        /\ tasks[t1].user # tasks[t2].user
        /\ tasks[t1].arg = NumberVal(T_3) /\ tasks[t2].arg = NumberVal(T_3)
        /\ tasks[t1].team_id # tasks[t2].team_id
        /\ {tasks[t1].result, tasks[t2].result} = {"ok", "Conflict"}

\* C12: when delete_team completes, the club is gone and every listing of
\* its transactions is empty, while the other clubs and their ledger entries
\* are as they were before each of its two statements; and in every state a
\* club id that the sequence handed out and that has no row has no ledger
\* entry, whatever the filter.
DeleteRunning(t) ==
    tasks[t].handler = "adm_execute_delete"
        /\ tasks[t].pc \in {"delete_transactions", "delete_team"}

C12_DeleteRemovesClub ==
    /\ [](\A id \in 1..team_seq :
             get_team_by_id(id) = {} =>
                 \A f \in TransTypes : get_transactions(transactions, id, f) = {<<>>})
    /\ [][\A t \in Tasks :
             (DeleteRunning(t) /\ tasks'[t] # tasks[t]
                               /\ tasks'[t].result # "Exception") =>
                 LET id == tasks[t].team_id
                 IN /\ {tm \in teams' : tm.id # id} = {tm \in teams : tm.id # id}
                    /\ {tx \in transactions' : tx.team_id # id}
                           = {tx \in transactions : tx.team_id # id}
                    /\ tasks'[t].pc = "clear" =>
                          /\ {tm \in teams' : tm.id = id} = {}
                          /\ \A f \in TransTypes :
                                get_transactions(transactions', id, f) = {<<>>}]_vars

\* C12, witness: a club that had a ledger entry has been deleted while the
\* other club and its ledger entry remain.
C12_Witness ==
    \E t \in Tasks :
        /\ tasks[t].handler = "adm_execute_delete"
        /\ tasks[t].pc = "clear"
        /\ tx_seq = 2
        /\ get_team_by_id(tasks[t].team_id) = {}
        /\ \E tm \in teams : EntriesOf(tm.id) # {}

\* C13: the list that get_transactions returns has at most 20 rows, all of
\* the club and all passing the filter, ordered by date from the newest, none
\* of the rows left out is newer than a listed one, and when no
\* add_transaction is in progress a row appended later (with the greater id)
\* is listed before a row appended earlier.
C13_ListNewestFirst ==
    [][\A t \in Tasks :
          ( /\ tasks[t].pc = "get_transactions"
            /\ tasks'[t].pc = "done" /\ tasks'[t].result = "ok"
            /\ \A s \in Tasks :
                  tasks[s].pc \notin {"insert_transaction", "update_budget"} )
          => LET rows == tasks'[t].rows
                 all == Matching(transactions, tasks[t].team_id, tasks[t].trans_type)
                 listed == {rows[i] : i \in DOMAIN rows}
             IN /\ Len(rows) <= LIMIT
                /\ listed \subseteq all
                /\ Cardinality(listed) = Len(rows)
                /\ Len(rows) = LIMIT \/ listed = all
                /\ \A i, j \in DOMAIN rows : i < j => rows[i].date >= rows[j].date
                /\ \A tx \in all \ listed, r \in listed : tx.date <= r.date
                /\ \A i, j \in DOMAIN rows : i < j => rows[i].id > rows[j].id]_vars

\* an update is dispatched to slot t in this step
Dispatched(t) ==
    Free(t) /\ tasks'[t] # tasks[t] /\ tasks'[t].handler # "none"

\* C14: in the five steps that validate their input (manager id, initial
\* budget, transaction amount, new manager id, new administrator id) a text
\* that fails the validation changes neither the store nor any session, so
\* that the step is still open with the same fields and handles the next
\* text as it would have handled it first; a text that passes it is stored
\* under the field of the step with the next state, or is carried into the
\* commit at a terminal step.
C14_InvalidInputKeepsStep ==
    [][\A t \in Tasks :
          Dispatched(t) =>
             LET r == tasks'[t]
                 u == r.user
                 h == r.handler
                 v == NumberVal(r.text)
             IN /\ h \in {"adm_set_manager", "adm_finish_change_manager",
                          "super_add_admin_finish"} =>
                      (r.result = "ValidationError" <=> ~isdigit(r.text))
                /\ h \in {"adm_finish_team", "adm_money_amount"} =>
                      (r.result = "ValidationError" <=> ~IsNumber(r.text))
                /\ r.result = "ValidationError" =>
                      /\ UNCHANGED <<store, fsm>>
                      /\ r.pc = "done"
                /\ (h = "adm_set_manager" /\ isdigit(r.text)) =>
                      /\ fsm' = [fsm EXCEPT ![u] =
                            [state |-> "waiting_budget",
                             data |-> update_data(fsm[u].data, "manager_id", v)]]
                      /\ UNCHANGED store
                /\ (h = "adm_money_amount" /\ IsNumber(r.text)) =>
                      /\ fsm' = [fsm EXCEPT ![u] =
                            [state |-> "waiting_trans_reason",
                             data |-> update_data(fsm[u].data, "amount", v)]]
                      /\ UNCHANGED store
                /\ (h = "adm_finish_team" /\ IsNumber(r.text)) =>
                      r.pc = "clear" /\ r.amount = v
                /\ (h = "adm_finish_change_manager" /\ isdigit(r.text)) =>
                      r.pc = "update_manager" /\ r.arg = v
                /\ (h = "super_add_admin_finish" /\ isdigit(r.text)) =>
                      r.pc = "clear" /\ r.arg = v /\ v \in admins']_vars

\* C14, witness: a handler of the step that asks for the manager id has
\* ended with ValidationError on a text that is not a number, and the session
\* of its user is still at that step with the name and the description.
C14_Witness ==
    \E t \in Tasks :
        /\ tasks[t].handler = "adm_set_manager"
        /\ tasks[t].result = "ValidationError"
        /\ tasks[t].text = T_abc
        /\ fsm[tasks[t].user] =
               [state |-> "waiting_manager_id", data |-> NameAndDesc]

\* the handlers of the terminal steps of the Create-club, Reassign-manager
\* and Add-administrator flows
TerminalHandlers ==
    {"adm_finish_team", "adm_finish_change_manager", "super_add_admin_finish"}

\* C15: a handler of the terminal step of the Create-club, Reassign-manager
\* or Add-administrator flow that got a valid text and does not raise sends
\* one commit statement, the only step of it that may change the store,
\* with the outcome ok, Conflict or AlreadyExists; its next step clears the
\* session of its user (state None, no data) whatever that outcome was, and
\* changes nothing else.
C15_CommitOnceThenClear ==
    [][\A t \in Tasks :
          ( /\ tasks'[t] # tasks[t]
            /\ tasks'[t].handler \in TerminalHandlers
            /\ tasks'[t].result \notin {"ValidationError", "Exception"} )
          => LET r == tasks[t]
                 n == tasks'[t]
             IN /\ n.pc # "clear" /\ r.pc # "clear" =>
                      /\ UNCHANGED <<store, fsm>>
                      /\ n.pc = "update_manager"
                /\ n.pc = "clear" =>
                      /\ UNCHANGED fsm
                      /\ UNCHANGED <<transactions, tx_seq, clock, maintenance>>
                      /\ n.result \in {"ok", "Conflict", "AlreadyExists"}
                      /\ n.result # "ok" => UNCHANGED <<teams, admins>>
                      /\ (n.result = "ok" /\ n.handler = "adm_finish_team") =>
                            /\ teams \subseteq teams'
                            /\ Cardinality(teams') = Cardinality(teams) + 1
                            /\ UNCHANGED admins
                      /\ (n.result = "ok" /\ n.handler = "adm_finish_change_manager") =>
                            /\ teams' = UpdateManager(teams, n.team_id, n.arg)
                            /\ UNCHANGED admins
                      /\ (n.result = "ok" /\ n.handler = "super_add_admin_finish") =>
                            /\ n.arg \notin admins
                            /\ admins' = admins \cup {n.arg}
                            /\ UNCHANGED teams
                /\ r.pc = "clear" =>
                      /\ n.pc = "done"
                      /\ n.result = r.result
                      /\ fsm' = [fsm EXCEPT ![r.user] = NoSession]
                      /\ UNCHANGED store]_vars

\* C15, witness: a terminal handler whose commit was refused (Conflict or
\* AlreadyExists) has ended and the session of its user is cleared.
C15_Witness ==
    \E t \in Tasks :
        /\ tasks[t].handler \in TerminalHandlers
        /\ tasks[t].pc = "done"
        /\ tasks[t].result \in {"Conflict", "AlreadyExists"}
        /\ fsm[tasks[t].user] = NoSession

\* C16: when a handler that commits (the terminal handlers and
\* adm_money_finish) ends with an error that the code does not classify,
\* raised by one of its own statements, the session of its user is cleared:
\* it does not stay at the terminal step.
C16_FailedCommitClears ==
    [][\A t \in Tasks :
          ( /\ tasks'[t] # tasks[t]
            /\ tasks'[t].handler \in TerminalHandlers \cup {"adm_money_finish"}
            /\ tasks'[t].pc = "done"
            /\ tasks'[t].result \in {"KeyError", "TypeError", "ForeignKeyViolation"} )
          => fsm'[tasks'[t].user] = NoSession]_vars

\* C17: a cancellation by an administrator, which is the callback
\* "admin_back" in any state or the cancel button that the prompt for the
\* new manager id shows (callback "sel_team_for_action_<id>" of the selected
\* club, sent in state waiting_new_manager_id), clears the session of that
\* administrator and changes nothing in the store.
C17_CancelClears ==
    [][\A t \in Tasks :
          ( /\ Dispatched(t)
            /\ check_is_admin(tasks'[t].user)
            /\ \/ tasks'[t].handler = "admin_back_main"
               \/ /\ tasks'[t].handler = "unhandled"
                  /\ fsm[tasks'[t].user].state = "waiting_new_manager_id"
                  /\ tasks'[t].team_id = data_get_team_id(fsm[tasks'[t].user].data) )
          => /\ fsm'[tasks'[t].user] = NoSession
             /\ UNCHANGED store]_vars

\* C18: the session of a user changes only in a step of a handler that
\* runs for an update of that user, and the commits of the Create-club and
\* Reassign-manager flows take the manager id, the name, the description and
\* the selected club from the session of the user whose message they handle.
C18_SessionsIsolated ==
    [][/\ \A b \in Users :
             fsm'[b] # fsm[b] =>
                 \E t \in Tasks : tasks'[t] # tasks[t] /\ tasks'[t].user = b
       /\ \A t \in Tasks :
             Dispatched(t) =>
                LET n == tasks'[t]
                    data == fsm[n.user].data
                IN /\ (n.handler = "adm_finish_team" /\ n.pc = "clear") =>
                         /\ n.arg = data.manager_id
                         /\ n.result = "ok" =>
                               teams' = InsertTeam(teams, n.team_id, data.name,
                                                   data.desc, data.manager_id,
                                                   NumberVal(n.text))
                   /\ (n.handler = "adm_finish_change_manager"
                           /\ n.pc = "update_manager") =>
                         n.team_id = data_get_team_id(data)]_vars

\* C18, witness: a Create-club commit of one administrator has ended and
\* cleared his session while the other administrator is in the
\* Reassign-manager flow with a selected club.
C18_Witness ==
    \E t \in Tasks, b \in Users :
        /\ tasks[t].handler = "adm_finish_team"
        /\ tasks[t].pc = "done" /\ tasks[t].result = "ok"
        /\ b # tasks[t].user
        /\ fsm[tasks[t].user] = NoSession
        /\ fsm[b].state = "waiting_new_manager_id"
        /\ data_get_team_id(fsm[b].data) # 0

\* the handlers that create, delete, reassign and adjust
CommitHandlers ==
    {"adm_finish_team", "adm_execute_delete", "adm_finish_change_manager",
     "adm_money_finish"}

\* C19: every step of a handler that creates a club, deletes a club, changes
\* a manager or adjusts a balance, and that changes the clubs or the ledger,
\* runs for a user who is the owner of the bot or an administrator at that
\* moment.
C19_NoCommitForPlain ==
    [][\A t \in Tasks :
          ( /\ tasks'[t] # tasks[t]
            /\ tasks'[t].handler \in CommitHandlers
            /\ <<teams, transactions>>' # <<teams, transactions>> )
          => check_is_admin(tasks'[t].user)]_vars

\* the handlers of /start and of the buttons of the manager's menu
PlainHandlers ==
    {"cmd_start", "usr_show_info", "usr_show_upgrade_stadium",
     "usr_show_finance", "usr_do_upgrade_stadium"}

\* C20: while the maintenance mode is ON, the handler of /start, of the club
\* information, of a report or of a stadium upgrade that is dispatched for a
\* user who is neither the owner nor an administrator ends at once with the
\* answer Unavailable and changes nothing in the store; a handler dispatched
\* for the owner or an administrator does not end with Unavailable.
C20_MaintenanceBlocksPlain ==
    [][\A t \in Tasks :
          /\ ( /\ Dispatched(t)
               /\ tasks'[t].handler \in PlainHandlers
               /\ Maintenance_is_on
               /\ ~check_is_admin(tasks'[t].user) )
             => /\ tasks'[t].pc = "done"
                /\ tasks'[t].result = "Unavailable"
                /\ UNCHANGED store
          /\ ( /\ Dispatched(t)
               /\ tasks'[t].handler \in PlainHandlers
               /\ check_is_admin(tasks'[t].user) )
             => tasks'[t].result # "Unavailable"]_vars

\* slot t has taken this step: its coroutine has moved, or an update was
\* dispatched to it and has ended as the update before it in that slot did
Acted(t) ==
    \/ tasks'[t] # tasks[t]
    \/ tasks' = tasks /\ Slot(t)

\* an update is dispatched to slot t in this step, also when it ends as the
\* update before it in that slot did
Handled(t) ==
    \/ Dispatched(t)
    \/ tasks' = tasks /\ Slot(t) /\ tasks[t].pc = "done"

\* the handlers of the buttons and of the step that only the owner of the
\* bot may use
OwnerHandlers ==
    {"super_toggle_maintenance", "super_add_admin_start",
     "super_add_admin_finish", "super_delete_admin"}

\* C21: a step that changes the maintenance mode or the set of the
\* administrators is a step of a handler that runs for an update of the owner
\* of the bot, and no session of another user is ever at the step that asks
\* for the id of the new administrator.
C21_OnlyOwnerChangesAccess ==
    /\ [](\A u \in Users : fsm[u].state = "waiting_new_admin_id" => u = OWNER_ID)
    /\ [][(admins' # admins \/ maintenance' # maintenance) =>
             \E t \in Tasks :
                 /\ Acted(t)
                 /\ tasks'[t].handler \in OwnerHandlers
                 /\ tasks'[t].user = OWNER_ID]_vars

\* C21, witness: a user who is an administrator and not the owner has tapped
\* a button of the owner and was refused.
C21_Witness ==
    \E t \in Tasks :
        /\ tasks[t].handler \in OwnerHandlers
        /\ tasks[t].user # OWNER_ID
        /\ is_admin_in_db(tasks[t].user)
        /\ tasks[t].result = "Unauthorized"

\* C22: whatever the set of the administrators is, the owner of the bot is
\* recognised as an administrator, /start answers him with the menu also in
\* the maintenance mode, and none of his updates is refused: his toggle goes
\* on to set the other mode, his "add_new_admin" opens the step, and his
\* "del_admin_<id>" removes that id.
C22_OwnerStaysPrivileged ==
    /\ [](check_is_admin(OWNER_ID))
    /\ [][\A t \in Tasks :
             (Handled(t) /\ tasks'[t].user = OWNER_ID) =>
                LET n == tasks'[t]
                IN /\ n.result \notin {"Unauthorized", "Unavailable", "NoAccess"}
                   /\ n.handler = "cmd_start" => n.result = "ok"
                   /\ n.handler = "super_toggle_maintenance" =>
                         /\ n.pc = "set_setting"
                         /\ n.new_mode # maintenance
                   /\ n.handler = "super_add_admin_start" =>
                         fsm'[OWNER_ID].state = "waiting_new_admin_id"
                   /\ n.handler = "super_delete_admin" =>
                         admins' = admins \ {n.arg}]_vars

\* C22, witness: the owner's own id was removed from the administrators, and
\* after that the owner has removed administrator 2.
C22_Witness ==
    \E t \in Tasks :
        /\ tasks[t].handler = "super_delete_admin"
        /\ tasks[t].user = OWNER_ID
        /\ tasks[t].arg = 2
        /\ tasks[t].result = "ok"
        /\ admins = {}

\* C23: the commit of the Add-administrator flow for an id that is in the
\* set of the administrators reports AlreadyExists and leaves the set as it
\* was; for an id that is not in the set it reports success and the set is
\* the old set and that id.  Nothing else of the store changes.
C23_AddAdminIdempotent ==
    [][\A t \in Tasks :
          ( /\ Dispatched(t)
            /\ tasks'[t].handler = "super_add_admin_finish"
            /\ tasks'[t].result # "ValidationError" )
          => LET n == tasks'[t]
             IN /\ n.arg = NumberVal(n.text)
                /\ IF n.arg \in admins
                   THEN n.result = "AlreadyExists" /\ admins' = admins
                   ELSE n.result = "ok" /\ admins' = admins \cup {n.arg}
                /\ UNCHANGED <<teams, team_seq, transactions, tx_seq, clock,
                               maintenance>>]_vars

\* C23, witness: an id that was in the set was added again.
C23_Witness ==
    \E t \in Tasks :
        /\ tasks[t].handler = "super_add_admin_finish"
        /\ tasks[t].result = "AlreadyExists"
        /\ tasks[t].arg \in admins

\* C24: when the notification that adm_money_finish sends to the manager of
\* the club is not delivered, the handler still ends without an error and
\* with the session of the administrator cleared, and that step changes
\* nothing in the store: the ledger entry of the adjustment is there and the
\* clubs are as the UPDATE of the balance left them.
C24_FailedNoticeKeepsCommit ==
    [][\A t \in Tasks :
          ( /\ At(t, "after_transaction")
            /\ tasks[t].handler = "adm_money_finish"
            /\ tasks'[t].notified = "failed" )
          => /\ tasks'[t].pc = "done"
             /\ tasks'[t].result = "ok"
             /\ fsm'[tasks[t].user] = NoSession
             /\ UNCHANGED store
             /\ \E tx \in transactions' :
                   /\ tx.team_id = tasks[t].team_id
                   /\ tx.amount = tasks[t].amount
                   /\ tx.reason = tasks[t].reason]_vars

\* C24, witness: an adjustment has ended with success and a cleared session
\* although its notification was not delivered, and its entry is in the
\* ledger.
C24_Witness ==
    \E t \in Tasks :
        /\ tasks[t].handler = "adm_money_finish"
        /\ tasks[t].pc = "done"
        /\ tasks[t].notified = "failed"
        /\ tasks[t].result = "ok"
        /\ fsm[tasks[t].user] = NoSession
        /\ EntriesOf(tasks[t].team_id) # {}

\* C25: a step that removes ledger entries of a club removes the club with
\* them, so that in no state a club that delete_team has begun to delete is
\* there without its entries; and no step changes a ledger entry that stays.
C25_DeleteIsAtomic ==
    [][/\ \A tx \in transactions, ty \in transactions' :
             ty.id = tx.id => ty = tx
       /\ \A tx \in transactions :
             (\A ty \in transactions' : ty.id # tx.id) =>
                 ~\E tm \in teams' : tm.id = tx.team_id]_vars

\* the steps of the Adjust-budget flow and of the Reassign-manager flow
StepsOfSelectedClub ==
    {"waiting_trans_amount", "waiting_trans_reason", "waiting_new_manager_id"}

\* C26: in every state, a session that is at a step of the Adjust-budget flow
\* or at the step of the Reassign-manager flow holds the id of a selected
\* club.
C26_StepsHaveSelectedClub ==
    \A u \in Users :
        fsm[u].state \in StepsOfSelectedClub => "team_id" \in DOMAIN fsm[u].data

\* the steps of the Create-club flow, in their order
CreateSteps ==
    <<"waiting_team_name", "waiting_team_desc", "waiting_manager_id",
      "waiting_budget">>

RECURSIVE PendingAmounts(_, _)
PendingAmounts(S, team_id) ==
    IF S = {} THEN 0
    ELSE LET t == CHOOSE x \in S : TRUE
         IN (IF tasks[t].pc = "update_budget" /\ tasks[t].team_id = team_id
             THEN tasks[t].amount ELSE 0)
            + PendingAmounts(S \ {t}, team_id)

====
